---- MODULE Spec2Model ----
(***************************************************************************)
(* Model of the exported DewartPG facade (src/index.js, lines 9-201): the  *)
(* Query Executor (query, querySync), the lifecycle (close) and the        *)
(* Hashed-Placeholder Template Resolver (hashQuery, hashQuerySync,         *)
(* _prepareHashParams, _hash).                                             *)
(*                                                                         *)
(* The pg Pool and the database are the environment: the pool answers a    *)
(* connect with an error or with a free connection, the database answers a *)
(* statement with an error or with a result.  Every answer is a            *)
(* nondeterministic choice; the facade's callbacks are the actions.        *)
(***************************************************************************)
EXTENDS Integers, Sequences, FiniteSets, TLC

\* ------------------------------------------------------------------ bounds
NCalls == 2       \* calls made on the facade in one behaviour
PoolMax == 2      \* connections the pool may hold
MaxQLen == 3      \* tokens of a templated query string
MaxFields == 2    \* fields in one group of the Template Parameters
MaxFacades == 3   \* facades constructed in one behaviour

Calls == 1..NCalls
Conns == 1..PoolMax

\* ------------------------------------------------------------ JS values
Undefined == "undefined"

\* Values handed to handlers, returned, thrown.  `q`, `v` name the statement
\* (text, bind values) a database result is the result of.
NoStmt == [q |-> <<>>, v |-> <<>>]
UndefinedVal == [kind |-> "undefined", err |-> "", of |-> NoStmt]
FalseVal == [kind |-> "false", err |-> "", of |-> NoStmt]
ErrVal(e) == [kind |-> "error", err |-> e, of |-> NoStmt]
ResultVal(q, v) == [kind |-> "result", err |-> "", of |-> [q |-> q, v |-> v]]

Ev(e, v) == [e |-> e, v |-> v]

\* ------------------------------------------------------- query strings
\* A query string is a sequence of tokens: plain text, the name marker
\* {%N%}, the value marker {&N&}; after resolution also the literal name N
\* and the positional placeholder $k.
Names == {"login", "name"}
RawValues == {"alice", "x"}

Text(s) == [t |-> "text", n |-> s]
NameMarker(n) == [t |-> "nameMarker", n |-> n]
ValueMarker(n) == [t |-> "valueMarker", n |-> n]
Ident(n) == [t |-> "text", n |-> n]
Placeholder(k) == [t |-> "placeholder", n |-> ToString(k)]

\* A raw string value, and the hex HMAC of one (collision-free: the digest
\* is determined by, and determines, algorithm, secret and value).
Raw(s) == [enc |-> "raw", v |-> s, secret |-> "", algorithm |-> ""]
Hmac(algorithm, secret, value) ==
    [enc |-> "hex", v |-> value.v, secret |-> secret, algorithm |-> algorithm]

VARIABLES
    hash,            \* this._configs.hash: the facade's hash configuration
    ending,          \* the pool: end() has been called
    ended,           \* the pool: every client is gone, the pool has ended
    endCb,           \* close's completion handler: "none" (close not called), "absent"
                     \* (closed without a handler), "pending", "called"
    leasedTo,        \* the pool: connection -> the call it is leased to, or 0
    leases,          \* the pool: connections leased so far
    releases,        \* the pool: releases so far
    foreignRelease,  \* a release was made on a connection not leased to the releasing call
    pc,              \* call -> "idle", "connect", "result", "done"
    args,            \* call -> entry point, executor operation, handlers supplied
    tmpl,            \* call -> template inputs of hashQuery/hashQuerySync
    params,          \* call -> the resolved parameters (_prepareHashParams's result)
    query,           \* call -> the query string passed to the executor
    values,          \* call -> the bind values passed to the executor
    client,          \* call -> the connection the call leased (closure variable), or 0
    exec,            \* call -> the connection its statement is executing on, or 0
    env,             \* call -> what the pool and the database answered
    log,             \* call -> what the call did, in order
    _connections,    \* DewartPG._connections: the facades constructed, in order
    disconnected     \* the last DewartPG.disconnect(): its outcome, the facades there were

vars == <<hash, ending, ended, endCb, leasedTo, leases, releases, foreignRelease,
          pc, args, tmpl, params, query, values, client, exec, env, log,
          _connections, disconnected>>

poolVars == <<leasedTo, leases, releases, foreignRelease>>
lifeVars == <<ending, ended, endCb>>
tmplVars == <<tmpl, params>>
regVars == <<_connections, disconnected>>

NoArgs == [entry |-> "none", op |-> "none", callback |-> FALSE, error |-> FALSE,
           afterEnd |-> FALSE]
NoGroup == [defined |-> FALSE, fields |-> <<>>]
NoTmpl == [query |-> <<>>, hash |-> NoGroup, other |-> NoGroup]
NoEnv == [lease |-> "none", stmt |-> "none"]

FullHash == [defined |-> TRUE, secret |-> "k", algorithm |-> "sha256"]

\* A facade as the registry sees it: its input, and whether close() was called on it.
Facade(h) == [hash |-> h, ending |-> FALSE]
NotDisconnected == [outcome |-> "none", n |-> 0]

InitWith(h) ==
    /\ hash = h
    /\ ending = FALSE
    /\ ended = FALSE
    /\ endCb = "none"
    /\ leasedTo = [k \in Conns |-> 0]
    /\ leases = 0
    /\ releases = 0
    /\ foreignRelease = FALSE
    /\ pc = [c \in Calls |-> "idle"]
    /\ args = [c \in Calls |-> NoArgs]
    /\ tmpl = [c \in Calls |-> NoTmpl]
    /\ params = [c \in Calls |-> <<>>]
    /\ query = [c \in Calls |-> <<>>]
    /\ values = [c \in Calls |-> <<>>]
    /\ client = [c \in Calls |-> 0]
    /\ exec = [c \in Calls |-> 0]
    /\ env = [c \in Calls |-> NoEnv]
    /\ log = [c \in Calls |-> <<>>]
    /\ _connections = <<Facade(h)>>
    /\ disconnected = NotDisconnected

Init == InitWith(FullHash)

\* ------------------------------------------------------------- the pool
FreeConns == {k \in Conns : leasedTo[k] = 0}

\* What pool.connect may answer: 0 is an error (the pool has been ended, the
\* connect timed out, the server refused), k > 0 is a free connection.
PoolResponses == IF ending THEN {0} ELSE {0} \cup FreeConns

Lease(c, k) ==
    /\ leasedTo' = [leasedTo EXCEPT ![k] = c]
    /\ leases' = leases + 1
    /\ UNCHANGED <<releases, foreignRelease>>

\* release() / client.release() of connection k, made by call c.
Release(c, k) ==
    /\ leasedTo' = [leasedTo EXCEPT ![k] = 0]
    /\ releases' = releases + 1
    /\ foreignRelease' = (foreignRelease \/ leasedTo[k] # c)
    /\ UNCHANGED leases

\* lease k and release it at once (both in one step of a callback)
LeaseAndRelease(c, k) ==
    /\ leasedTo' = [leasedTo EXCEPT ![k] = 0]
    /\ leases' = leases + 1
    /\ releases' = releases + 1
    /\ UNCHANGED foreignRelease

\* What the database answers to the statement of call c.
DbResult(c, ok) ==
    IF ok THEN ResultVal(query[c], values[c]) ELSE ErrVal("QueryError")

Finish(c, events) ==
    /\ pc' = [pc EXCEPT ![c] = "done"]
    /\ log' = [log EXCEPT ![c] = @ \o events]

\* --------------------------------------------------------- the executor
\* this.query(query, values, callback, error), up to the call of pool.connect
CallQuery(c, entry, q, v, hasCb, hasErr) ==
    /\ pc' = [pc EXCEPT ![c] = "connect"]
    /\ args' = [args EXCEPT ![c] = [entry |-> entry, op |-> "query", callback |-> hasCb,
                                    error |-> hasErr, afterEnd |-> ending]]
    /\ query' = [query EXCEPT ![c] = q]
    /\ values' = [values EXCEPT ![c] = v]
    /\ log' = [log EXCEPT ![c] = Append(@, Ev("connect", UndefinedVal))]
    /\ UNCHANGED <<hash, regVars, lifeVars, poolVars, client, exec, env>>

\* this.querySync(query, values), up to the await of pool.connect
CallQuerySync(c, entry, q, v) ==
    /\ pc' = [pc EXCEPT ![c] = "connect"]
    /\ args' = [args EXCEPT ![c] = [entry |-> entry, op |-> "querySync", callback |-> FALSE,
                                    error |-> FALSE, afterEnd |-> ending]]
    /\ query' = [query EXCEPT ![c] = q]
    /\ values' = [values EXCEPT ![c] = v]
    /\ log' = [log EXCEPT ![c] = Append(@, Ev("connect", UndefinedVal))]
    /\ UNCHANGED <<hash, regVars, lifeVars, poolVars, client, exec, env>>

RawQuery(c) == <<Text(ToString(c))>>

Query(c, hasCb, hasErr) ==
    /\ pc[c] = "idle"
    /\ CallQuery(c, "query", RawQuery(c), <<>>, hasCb, hasErr)
    /\ UNCHANGED tmplVars

QuerySync(c) ==
    /\ pc[c] = "idle"
    /\ CallQuerySync(c, "querySync", RawQuery(c), <<>>)
    /\ UNCHANGED tmplVars

\* query's connect callback with a client: client.query(query, values, cb),
\* but with the connection released before the statement is issued
QueryConnectedReleaseEarly(c, k) ==
    /\ LeaseAndRelease(c, k)
    /\ client' = [client EXCEPT ![c] = k]
    /\ exec' = [exec EXCEPT ![c] = k]
    /\ env' = [env EXCEPT ![c].lease = "ok"]
    /\ pc' = [pc EXCEPT ![c] = "result"]
    /\ log' = [log EXCEPT ![c] = @ \o <<Ev("lease", UndefinedVal), Ev("release", UndefinedVal),
                                         Ev("exec", UndefinedVal)>>]

\* query's connect callback with a client: client.query(query, values, cb)
QueryConnected(c, k) ==
    /\ Lease(c, k)
    /\ client' = [client EXCEPT ![c] = k]
    /\ exec' = [exec EXCEPT ![c] = k]
    /\ env' = [env EXCEPT ![c].lease = "ok"]
    /\ pc' = [pc EXCEPT ![c] = "result"]
    /\ log' = [log EXCEPT ![c] = @ \o <<Ev("lease", UndefinedVal), Ev("exec", UndefinedVal)>>]

\* query's connect callback with err: error(err) when error is a function;
\* otherwise control falls through to client.query with client undefined
QueryConnectFailed(c) ==
    /\ env' = [env EXCEPT ![c].lease = "err"]
    /\ IF args[c].error
       THEN Finish(c, <<Ev("error", ErrVal("ConnectionError"))>>)
       ELSE Finish(c, <<Ev("throw", ErrVal("TypeError"))>>)
    /\ UNCHANGED <<poolVars, client, exec>>

QueryOnConnect(c) ==
    /\ pc[c] = "connect"
    /\ args[c].op = "query"
    /\ \E k \in PoolResponses :
          IF k = 0 THEN QueryConnectFailed(c) ELSE QueryConnected(c, k)
    /\ UNCHANGED <<hash, regVars, lifeVars, args, tmplVars, query, values>>

\* what query's statement callback does after release()
QueryNotify(c, ok) ==
    IF ~ok /\ args[c].error
    THEN <<Ev("error", DbResult(c, ok))>>
    ELSE IF args[c].callback
         THEN <<Ev("callback", IF ok THEN DbResult(c, ok) ELSE UndefinedVal)>>
         ELSE <<>>

\* query's statement callback: release(), then error(err) or callback(result)
QueryOnResult(c) ==
    /\ pc[c] = "result"
    /\ args[c].op = "query"
    /\ \E ok \in BOOLEAN :
          /\ env' = [env EXCEPT ![c].stmt = IF ok THEN "ok" ELSE "err"]
          /\ Finish(c, <<Ev("release", UndefinedVal)>> \o QueryNotify(c, ok))
    /\ Release(c, client[c])
    /\ exec' = [exec EXCEPT ![c] = 0]
    /\ UNCHANGED <<hash, regVars, lifeVars, args, tmplVars, query, values, client>>

\* querySync after `await this._pool.connect()`: the statement is issued, or
\* the outer catch logs and the call returns false
QuerySyncOnConnect(c) ==
    /\ pc[c] = "connect"
    /\ args[c].op = "querySync"
    /\ \E k \in PoolResponses :
          IF k = 0
          THEN /\ env' = [env EXCEPT ![c].lease = "err"]
               /\ Finish(c, <<Ev("return", FalseVal)>>)
               /\ UNCHANGED <<poolVars, client, exec>>
          ELSE /\ Lease(c, k)
               /\ client' = [client EXCEPT ![c] = k]
               /\ exec' = [exec EXCEPT ![c] = k]
               /\ env' = [env EXCEPT ![c].lease = "ok"]
               /\ pc' = [pc EXCEPT ![c] = "result"]
               /\ log' = [log EXCEPT ![c] = @ \o <<Ev("lease", UndefinedVal),
                                                    Ev("exec", UndefinedVal)>>]
    /\ UNCHANGED <<hash, regVars, lifeVars, args, tmplVars, query, values>>

\* querySync's statement failing with the inner catch missing: the error
\* leaves the call
QuerySyncFailedNoCatch(c) ==
    /\ Finish(c, <<Ev("throw", ErrVal("QueryError"))>>)
    /\ UNCHANGED poolVars

\* querySync's statement failed: the inner catch logs, nothing is released,
\* and control reaches `return false`
QuerySyncFailed(c) ==
    /\ Finish(c, <<Ev("return", FalseVal)>>)
    /\ UNCHANGED poolVars

\* querySync's statement succeeded: client.release(); return result
QuerySyncSucceeded(c) ==
    /\ Release(c, client[c])
    /\ Finish(c, <<Ev("release", UndefinedVal), Ev("return", DbResult(c, TRUE))>>)

\* querySync after `await client.query(query, values)`
QuerySyncOnResult(c) ==
    /\ pc[c] = "result"
    /\ args[c].op = "querySync"
    /\ \E ok \in BOOLEAN :
          /\ env' = [env EXCEPT ![c].stmt = IF ok THEN "ok" ELSE "err"]
          /\ IF ok THEN QuerySyncSucceeded(c) ELSE QuerySyncFailed(c)
    /\ exec' = [exec EXCEPT ![c] = 0]
    /\ UNCHANGED <<hash, regVars, lifeVars, args, tmplVars, query, values, client>>

\* ------------------------------------------------- the template resolver
ExampleQuery ==
    <<Text("SELECT * FROM users WHERE "), NameMarker("login"), Text("="),
      ValueMarker("login")>>

Tokens == {Text("=")} \cup {NameMarker(n) : n \in Names} \cup {ValueMarker(n) : n \in Names}
Queries == UNION {[1..n -> Tokens] : n \in 0..MaxQLen} \cup {ExampleQuery}

\* The fields of one group in key-enumeration order: an object has each key once.
Field(n, s) == [name |-> n, value |-> Raw(s)]
AllFields == {Field(n, s) : n \in Names, s \in RawValues}
GroupFields ==
    UNION {{f \in [1..n -> AllFields] :
              \A i, j \in 1..n : f[i].name = f[j].name => i = j} : n \in 0..MaxFields}
Groups == {NoGroup} \cup {[defined |-> TRUE, fields |-> f] : f \in GroupFields}

HashConfigs ==
    {[defined |-> FALSE, secret |-> Undefined, algorithm |-> Undefined]}
        \cup {[defined |-> TRUE, secret |-> s, algorithm |-> a] :
                 s \in {Undefined, "k"}, a \in {Undefined, "sha256"}}

Returned(x) == [threw |-> FALSE, err |-> "", value |-> x]
Thrown(e) == [threw |-> TRUE, err |-> e, value |-> Raw("")]

\* _hash(value): reading this._configs.hash.secret of an absent hash object
\* is a TypeError; a missing secret or algorithm throws the Error of line 196
_hash(value) ==
    IF ~hash.defined THEN Thrown("TypeError")
    ELSE IF hash.secret = Undefined \/ hash.algorithm = Undefined
         THEN Thrown("ConfigurationError")
         ELSE Returned(Hmac(hash.algorithm, hash.secret, value))

\* the first loop of _prepareHashParams: push {name, value: _hash(...)}
RECURSIVE PushHashed(_, _, _)
PushHashed(fields, i, result) ==
    IF i > Len(fields) THEN [threw |-> FALSE, err |-> "", result |-> result]
    ELSE LET h == _hash(fields[i].value)
         IN IF h.threw THEN [threw |-> TRUE, err |-> h.err, result |-> result]
            ELSE PushHashed(fields, i + 1,
                            Append(result, [name |-> fields[i].name, value |-> h.value]))

\* the second loop of _prepareHashParams: push {name, value} unchanged
RECURSIVE PushOther(_, _, _)
PushOther(fields, i, result) ==
    IF i > Len(fields) THEN result
    ELSE PushOther(fields, i + 1,
                   Append(result, [name |-> fields[i].name, value |-> fields[i].value]))

\* _prepareHashParams with the hash fields pushed unhashed
_prepareHashParamsUnhashed(vals) ==
    [threw |-> FALSE, err |-> "",
     result |-> PushOther(IF vals.other.defined THEN vals.other.fields ELSE <<>>, 1,
                          PushOther(IF vals.hash.defined THEN vals.hash.fields ELSE <<>>,
                                    1, <<>>))]

_prepareHashParams(vals) ==
    LET hashed == IF vals.hash.defined
                  THEN PushHashed(vals.hash.fields, 1, <<>>)
                  ELSE [threw |-> FALSE, err |-> "", result |-> <<>>]
    IN IF hashed.threw THEN hashed
       ELSE [threw |-> FALSE, err |-> "",
             result |-> IF vals.other.defined
                        THEN PushOther(vals.other.fields, 1, hashed.result)
                        ELSE hashed.result]

\* String.prototype.replace with a global RegExp of one marker
ReplaceAll(q, marker, with) ==
    [j \in 1..Len(q) |-> IF q[j] = marker THEN with ELSE q[j]]

\* the loop of hashQuery / hashQuerySync over the resolved parameters;
\* `counter` is incremented once per parameter, `v` gets one value per parameter
RECURSIVE ResolveLoop(_, _, _, _, _)
ResolveLoop(ps, i, counter, q, v) ==
    IF i > Len(ps) THEN [query |-> q, v |-> v]
    ELSE ResolveLoop(ps, i + 1, counter + 1,
                     ReplaceAll(ReplaceAll(q, NameMarker(ps[i].name), Ident(ps[i].name)),
                                ValueMarker(ps[i].name), Placeholder(counter + 1)),
                     Append(v, ps[i].value))

\* the try block of hashQuery / hashQuerySync up to the call of the executor
Resolve(q, vals) ==
    IF ~hash.defined
    THEN [threw |-> TRUE, err |-> "TypeError", params |-> <<>>, query |-> q, v |-> <<>>]
    ELSE IF hash.secret = Undefined
    THEN [threw |-> TRUE, err |-> "ConfigurationError", params |-> <<>>, query |-> q,
          v |-> <<>>]
    ELSE LET p == _prepareHashParams(vals)
         IN IF p.threw
            THEN [threw |-> TRUE, err |-> p.err, params |-> <<>>, query |-> q, v |-> <<>>]
            ELSE LET r == ResolveLoop(p.result, 1, 0, q, <<>>)
                 IN [threw |-> FALSE, err |-> "", params |-> p.result, query |-> r.query,
                     v |-> r.v]

\* hashQuery(query, values, callback, error)
HashQuery(c, q, vals, hasCb, hasErr) ==
    /\ pc[c] = "idle"
    /\ tmpl' = [tmpl EXCEPT ![c] = [query |-> q, hash |-> vals.hash, other |-> vals.other]]
    /\ LET r == Resolve(q, vals)
       IN /\ params' = [params EXCEPT ![c] = r.params]
          /\ IF r.threw
             THEN /\ args' = [args EXCEPT ![c] = [entry |-> "hashQuery", op |-> "none",
                                                  callback |-> hasCb, error |-> hasErr,
                                                  afterEnd |-> ending]]
                  /\ Finish(c, <<Ev("catch", ErrVal(r.err))>>
                                   \o IF hasErr THEN <<Ev("error", ErrVal(r.err))>> ELSE <<>>)
                  /\ UNCHANGED <<hash, regVars, lifeVars, poolVars, query, values, client, exec, env>>
             ELSE CallQuery(c, "hashQuery", r.query, r.v, hasCb, hasErr)

\* hashQuerySync(query, values)
HashQuerySync(c, q, vals) ==
    /\ pc[c] = "idle"
    /\ tmpl' = [tmpl EXCEPT ![c] = [query |-> q, hash |-> vals.hash, other |-> vals.other]]
    /\ LET r == Resolve(q, vals)
       IN /\ params' = [params EXCEPT ![c] = r.params]
          /\ IF r.threw
             THEN /\ args' = [args EXCEPT ![c] = [entry |-> "hashQuerySync", op |-> "none",
                                                  callback |-> FALSE, error |-> FALSE,
                                                  afterEnd |-> ending]]
                  /\ Finish(c, <<Ev("catch", ErrVal(r.err)), Ev("return", UndefinedVal)>>)
                  /\ UNCHANGED <<hash, regVars, lifeVars, poolVars, query, values, client, exec, env>>
             ELSE CallQuerySync(c, "hashQuerySync", r.query, r.v)

\* ------------------------------------------------------------ lifecycle
\* close(callback): this._pool.end(...).  The pool ends at once when no
\* client is out, and then runs the end callback.
Close(hasCb) ==
    /\ ~ending
    /\ ending' = TRUE
    /\ IF FreeConns = Conns
       THEN /\ ended' = TRUE
            /\ endCb' = IF hasCb THEN "called" ELSE "absent"
       ELSE /\ ended' = FALSE
            /\ endCb' = IF hasCb THEN "pending" ELSE "absent"
    /\ _connections' = [_connections EXCEPT ![1].ending = TRUE]
    /\ UNCHANGED <<hash, disconnected, poolVars, pc, args, tmplVars, query, values, client, exec,
                   env, log>>

\* the pool, ending, sees its last client returned: it ends and runs the
\* callback close gave it, which calls close's handler when one was supplied
PoolEnded ==
    /\ ending
    /\ ~ended
    /\ FreeConns = Conns
    /\ ended' = TRUE
    /\ endCb' = IF endCb = "pending" THEN "called" ELSE endCb
    /\ UNCHANGED <<hash, regVars, ending, poolVars, pc, args, tmplVars, query, values, client, exec,
                   env, log>>

Executor(c) ==
    \/ QueryOnConnect(c)
    \/ QueryOnResult(c)
    \/ QuerySyncOnConnect(c)
    \/ QuerySyncOnResult(c)

Next ==
    \/ \E c \in Calls, hasCb \in BOOLEAN, hasErr \in BOOLEAN : Query(c, hasCb, hasErr)
    \/ \E c \in Calls : QuerySync(c)
    \/ \E c \in Calls : Executor(c)
    \/ \E hasCb \in BOOLEAN : Close(hasCb)
    \/ PoolEnded

Spec == Init /\ [][Next]_vars

\* The resolver alone, on a facade with a complete hash configuration: one
\* templated call over every query string and Template Parameters in bounds.
NextResolve ==
    \/ /\ pc[1] = "idle"
       /\ \E q \in Queries, h \in Groups, o \in Groups :
             HashQuery(1, q, [hash |-> h, other |-> o], TRUE, TRUE)
    \/ /\ pc[1] = "idle"
       /\ \E q \in Queries, h \in Groups, o \in Groups :
             HashQuerySync(1, q, [hash |-> h, other |-> o])

SpecResolve == Init /\ [][NextResolve]_vars

\* One templated call end to end, on a facade with any hash configuration.
InitHash == \E h \in HashConfigs : InitWith(h)

NextHash ==
    \/ /\ pc[1] = "idle"
       /\ \E h \in Groups, o \in Groups, hasCb \in BOOLEAN, hasErr \in BOOLEAN :
             HashQuery(1, ExampleQuery, [hash |-> h, other |-> o], hasCb, hasErr)
    \/ /\ pc[1] = "idle"
       /\ \E h \in Groups, o \in Groups :
             HashQuerySync(1, ExampleQuery, [hash |-> h, other |-> o])
    \/ Executor(1)

SpecHash == InitHash /\ [][NextHash]_vars

\* ------------------------------------------------------------- registry
\* DewartPG.length: the number of parameters of the constructor
ClassLength == 1

\* the class before any facade is constructed (static _connections = [])
InitRegistry ==
    /\ hash = FullHash
    /\ ending = FALSE
    /\ ended = FALSE
    /\ endCb = "none"
    /\ leasedTo = [k \in Conns |-> 0]
    /\ leases = 0
    /\ releases = 0
    /\ foreignRelease = FALSE
    /\ pc = [c \in Calls |-> "idle"]
    /\ args = [c \in Calls |-> NoArgs]
    /\ tmpl = [c \in Calls |-> NoTmpl]
    /\ params = [c \in Calls |-> <<>>]
    /\ query = [c \in Calls |-> <<>>]
    /\ values = [c \in Calls |-> <<>>]
    /\ client = [c \in Calls |-> 0]
    /\ exec = [c \in Calls |-> 0]
    /\ env = [c \in Calls |-> NoEnv]
    /\ log = [c \in Calls |-> <<>>]
    /\ _connections = <<>>
    /\ disconnected = NotDisconnected

facadeVars == <<hash, lifeVars, poolVars, pc, args, tmplVars, query, values, client, exec,
                env, log>>

\* new DewartPG(input): DewartPG._connections.push(this)
Construct(h) ==
    /\ Len(_connections) < MaxFacades
    /\ _connections' = Append(_connections, Facade(h))
    /\ UNCHANGED <<disconnected, facadeVars>>

\* the loop of disconnect from index i (0-based) up to DewartPG.length:
\* _connections[i].close(), a TypeError when _connections[i] is undefined
RECURSIVE DisconnectLoop(_, _)
DisconnectLoop(conns, i) ==
    IF ~(i < ClassLength) THEN [threw |-> FALSE, conns |-> conns]
    ELSE IF i + 1 > Len(conns) THEN [threw |-> TRUE, conns |-> conns]
         ELSE DisconnectLoop([conns EXCEPT ![i + 1].ending = TRUE], i + 1)

\* static disconnect()
Disconnect ==
    /\ LET r == DisconnectLoop(_connections, 0)
       IN /\ _connections' = r.conns
          /\ disconnected' = [outcome |-> IF r.threw THEN "threw" ELSE "returned",
                              n |-> Len(_connections)]
    /\ UNCHANGED facadeVars

NextRegistry ==
    \/ \E h \in HashConfigs : Construct(h)
    \/ Disconnect

SpecRegistry == InitRegistry /\ [][NextRegistry]_vars

\* ------------------------------------------------------------ properties
Has(c, e) == \E i \in 1..Len(log[c]) : log[c][i].e = e
Did(c, ev) == \E i \in 1..Len(log[c]) : log[c][i] = ev
Count(c, e) == Cardinality({i \in 1..Len(log[c]) : log[c][i].e = e})
Last(c) == log[c][Len(log[c])]
Notifications == {"error", "callback", "return"}
Templated(c) == args[c].entry \in {"hashQuery", "hashQuerySync"}
PlaceholdersOf(q) == {q[j] : j \in {i \in 1..Len(q) : q[i].t = "placeholder"}}
FieldsOf(g) == IF g.defined THEN g.fields ELSE <<>>

\* C1: every call that leased a connection has released it exactly once when it
\* is over, whether its statement succeeded or failed; once all calls are over
\* the pool counts as many releases as leases and no connection is leased.
C1_ReleasedExactlyOnce ==
    /\ \A c \in Calls : pc[c] = "done" /\ env[c].lease = "ok" => Count(c, "release") = 1
    /\ (\A c \in Calls : pc[c] \in {"idle", "done"}) =>
          leases = releases /\ FreeConns = Conns

\* C2: a call that obtained a connection releases it before it notifies its
\* caller (error handler, success handler, returned value), on every exit path.
C2_ReleaseBeforeNotify ==
    \A c \in Calls : env[c].lease = "ok" =>
        \A j \in 1..Len(log[c]) : log[c][j].e \in Notifications =>
            \E i \in 1..(j - 1) : log[c][i].e = "release"

\* C3: a templated call with a non-empty hash group on a facade whose hash
\* configuration is absent or lacks the secret or the algorithm fails with a
\* configuration error, handed to the error handler of hashQuery when one is
\* supplied, and never reaches the pool or the database.
C3_ConfigErrorNoDatabase ==
    \A c \in Calls :
        (/\ Templated(c)
         /\ Len(FieldsOf(tmpl[c].hash)) > 0
         /\ (~hash.defined \/ hash.secret = Undefined \/ hash.algorithm = Undefined))
        => /\ Did(c, Ev("catch", ErrVal("ConfigurationError")))
           /\ (args[c].entry = "hashQuery" /\ args[c].error
                  => Did(c, Ev("error", ErrVal("ConfigurationError"))))
           /\ ~Has(c, "connect")
           /\ client[c] = 0 /\ exec[c] = 0 /\ env[c] = NoEnv

\* C4: a callback-style call whose lease or statement failed hands the error to
\* the error handler when one is supplied; without one the error is dropped:
\* nothing is thrown, the success handler is not invoked, and no statement is
\* issued on a connection that was never leased.
C4_ErrorsRoutedOrDropped ==
    \A c \in Calls :
        (args[c].op = "query" /\ pc[c] = "done"
            /\ (env[c].lease = "err" \/ env[c].stmt = "err"))
        => IF args[c].error
           THEN Did(c, Ev("error", ErrVal(IF env[c].lease = "err" THEN "ConnectionError"
                                          ELSE "QueryError")))
           ELSE ~Has(c, "throw") /\ ~Has(c, "callback")

\* C5: a finished querySync call has thrown nothing and has returned exactly
\* once; it returned false when the lease or the statement failed, and the
\* database's result exactly when both succeeded.
C5_QuerySyncNeverThrows ==
    \A c \in Calls :
        (args[c].op = "querySync" /\ pc[c] = "done")
        => /\ ~Has(c, "throw")
           /\ Count(c, "return") = 1
           /\ Last(c).e = "return"
           /\ (env[c].lease = "err" \/ env[c].stmt = "err") => Last(c).v = FalseVal
           /\ (Last(c).v.kind = "result") = (env[c].lease = "ok" /\ env[c].stmt = "ok")
           /\ (env[c].lease = "ok" /\ env[c].stmt = "ok")
                  => Last(c).v = ResultVal(query[c], values[c])

\* a querySync call whose statement failed has returned false
C5_Witness ==
    \E c \in Calls :
        /\ args[c].op = "querySync" /\ pc[c] = "done"
        /\ env[c].lease = "ok" /\ env[c].stmt = "err"
        /\ Last(c) = Ev("return", FalseVal)

\* C6: a call made after close has ended the pool ends with a connection
\* error: its error handler is invoked with it (query) or it returns false
\* (querySync).
C6_AfterCloseConnectionError ==
    \A c \in Calls :
        (args[c].afterEnd /\ pc[c] = "done")
        => \/ args[c].op = "query" /\ Did(c, Ev("error", ErrVal("ConnectionError")))
           \/ args[c].op = "querySync" /\ Last(c) = Ev("return", FalseVal)

\* C7: in the statement a templated call passes to the executor, every
\* placeholder $k stands where a value marker of the k-th resolved field stood
\* and the k-th bind value is that field's value, and there are exactly as many
\* bind values as distinct placeholders.
C7_BindsAligned ==
    \A c \in Calls :
        (Templated(c) /\ Has(c, "connect"))
        => /\ \A j \in 1..Len(query[c]) :
                 query[c][j].t = "placeholder" =>
                    \E k \in 1..Len(params[c]) :
                        /\ query[c][j] = Placeholder(k)
                        /\ tmpl[c].query[j] = ValueMarker(params[c][k].name)
                        /\ k <= Len(values[c])
                        /\ values[c][k] = params[c][k].value
           /\ Len(values[c]) = Cardinality(PlaceholdersOf(query[c]))

\* C8 (1): the resolved parameters are the hash fields, then the other fields,
\* each group in its order; a hash field carries the hex HMAC of its raw value
\* under the configured secret and algorithm, another field its raw value.
C8_ResolvedParams(c) ==
    LET H == FieldsOf(tmpl[c].hash)
        O == FieldsOf(tmpl[c].other)
    IN /\ Len(params[c]) = Len(H) + Len(O)
       /\ \A i \in 1..Len(H) :
             /\ params[c][i].name = H[i].name
             /\ params[c][i].value = [enc |-> "hex", v |-> H[i].value.v,
                                      secret |-> hash.secret, algorithm |-> hash.algorithm]
       /\ \A i \in 1..Len(O) : params[c][Len(H) + i] = O[i]

\* C8 (2): every name marker of a resolved field has become the literal name,
\* every value marker of one a placeholder, everything else is as it was.
C8_RewrittenQuery(c) ==
    LET resolved == {params[c][i].name : i \in 1..Len(params[c])}
        q == tmpl[c].query
    IN /\ Len(query[c]) = Len(q)
       /\ \A j \in 1..Len(q) :
             IF q[j].t = "nameMarker" /\ q[j].n \in resolved
             THEN query[c][j] = Text(q[j].n)
             ELSE IF q[j].t = "valueMarker" /\ q[j].n \in resolved
                  THEN query[c][j].t = "placeholder"
                  ELSE query[c][j] = q[j]
       /\ \A j \in 1..Len(q) :
             query[c][j].t \in {"nameMarker", "valueMarker"} => query[c][j].n \notin resolved

\* C8 (3): the scenario of the specification.
C8_Example(c) ==
    (/\ tmpl[c].query = ExampleQuery
     /\ FieldsOf(tmpl[c].hash) = <<Field("login", "alice")>>
     /\ FieldsOf(tmpl[c].other) = <<>>)
    => /\ query[c] = <<Text("SELECT * FROM users WHERE "), Text("login"), Text("="),
                       Placeholder(1)>>
       /\ values[c] = <<[enc |-> "hex", v |-> "alice", secret |-> "k",
                         algorithm |-> "sha256"]>>

\* C8 (4): what is bound for a hash field is its digest, not its raw value, and
\* the statement text holds text, names, placeholders and unresolved markers only.
C8_NoRawHashValue(c) ==
    /\ \A i \in 1..Len(FieldsOf(tmpl[c].hash)) :
          /\ values[c][i].enc = "hex"
          /\ values[c][i] # tmpl[c].hash.fields[i].value
    /\ \A j \in 1..Len(query[c]) :
          query[c][j].t \in {"text", "placeholder", "nameMarker", "valueMarker"}

C9_OtherOnlyNeedsNoHashConfig ==
    \A c \in Calls :
        (Templated(c) /\ Len(FieldsOf(tmpl[c].hash)) = 0 /\ ~hash.defined)
        => /\ ~Has(c, "catch")
           /\ Has(c, "connect")
           /\ values[c] = [i \in 1..Len(FieldsOf(tmpl[c].other)) |->
                              FieldsOf(tmpl[c].other)[i].value]

\* C10: with several calls in flight, no connection executes the statements
\* of two calls at once, no call releases a connection that is not leased to
\* it, a statement executes only on the connection its call leased and still
\* holds, and every result delivered is the result of the call's own statement.
C10_OwnConnectionOnly ==
    /\ \A c, d \in Calls : c # d /\ exec[c] # 0 => exec[c] # exec[d]
    /\ ~foreignRelease
    /\ \A c \in Calls : exec[c] # 0 => exec[c] = client[c] /\ leasedTo[exec[c]] = c
    /\ \A c \in Calls : \A i \in 1..Len(log[c]) :
          log[c][i].v.kind = "result" => log[c][i].v = ResultVal(RawQuery(c), <<>>)

\* two calls have their statements executing at the same time, and one call has
\* been given its result while another was still executing
C10_Witness ==
    \E c, d \in Calls :
        /\ c # d
        /\ exec[c] # 0
        /\ pc[d] = "done" /\ Has(d, "release") /\ Last(d).v.kind = "result"
        /\ leases = 2

InFlight == {c \in Calls : pc[c] \in {"connect", "result"}}

\* C11: close ends the pool once the calls in flight are over and their
\* connections are back; a handler given to close has been invoked when the
\* pool has ended and never before; without a handler nothing is invoked.
C11_CloseEndsPoolAndNotifies ==
    /\ endCb = "called" => ended
    /\ ended => FreeConns = Conns /\ endCb \in {"called", "absent"}
    /\ (ending /\ InFlight = {}) => (ended \/ FreeConns = Conns)

\* C12: disconnect() does not throw, whatever the number of facades
\* constructed so far, and when it has returned close has been called on every
\* facade that was in the registry.
C12_DisconnectClosesAll ==
    disconnected.outcome # "none" =>
        /\ disconnected.outcome = "returned"
        /\ disconnected.n <= Len(_connections)
        /\ \A i \in 1..disconnected.n : _connections[i].ending

Handled(c) == {i \in 1..Len(log[c]) : log[c][i].e \in {"error", "callback"}}

\* C13: a callback-style call invokes at most one handler, at most once; the
\* success handler is invoked only when the lease and the statement both
\* succeeded, and then with the database's result.
C13_NotifiedOnceWithOwnOutcome ==
    \A c \in Calls :
        args[c].op = "query" =>
            /\ Cardinality(Handled(c)) <= 1
            /\ \A i \in 1..Len(log[c]) :
                  log[c][i].e = "callback" =>
                      /\ env[c].lease = "ok" /\ env[c].stmt = "ok"
                      /\ log[c][i].v = ResultVal(query[c], values[c])

====
